---- MODULE Spec2Model ----
(***************************************************************************)
(* Model of test-workspace/src/main.rs: main builds a vector of three      *)
(* Token records and prints one line per record through                    *)
(* tk.iter().enumerate().peekable().                                       *)
(*                                                                         *)
(* Several invocations of the program (Runs) are stepped side by side      *)
(* under one shared output environment, writeFails, which fixes the        *)
(* write attempts to standard output that fail.  A line is written whole   *)
(* or not at all (println! writes through a line-buffered stdout).         *)
(***************************************************************************)
EXTENDS Integers, Sequences, FiniteSets, TLC

\* Number of invocations of the program stepped side by side.
NumRuns == 2

Runs == 1..NumRuns

\* struct Token { length: u8, data: u8 }
U8 == 0..255

Token(l, d) == [length |-> l, data |-> d]

\* The vec! literal of main.
TokenLiteral == << Token(5, 10), Token(3, 20), Token(8, 30) >>

\* Write attempts of one run the environment may fail: one per record.
WriteIndices == 0..(Len(TokenLiteral) - 1)

\* Option<T>
None == [some |-> FALSE]

Some(v) == [some |-> TRUE, val |-> v]

\* Exit status of a process that is still running.
NoExit == -1

\* Exit status of main returning normally.
ExitSuccess == 0

\* Exit status of a Rust process whose main thread panicked.
ExitPanic == 101

VARIABLES
    writeFails,  \* environment: the write attempts (0-based) that fail
    pc,          \* pc[r]: position of run r in main
    tk,          \* tk[r]: the vector of Tokens
    iter_pos,    \* iter_pos[r]: cursor of the slice iterator tk.iter()
    count,       \* count[r]: counter of the Enumerate adapter
    peeked,      \* peeked[r]: lookahead slot of the Peekable adapter
    cur,         \* cur[r]: the (i, token) binding of the loop body
    yielded,     \* yielded[r]: the pairs the for loop has received so far
    attempts,    \* attempts[r]: number of writes to stdout attempted
    stdout,      \* stdout[r]: the lines written to standard output
    exit         \* exit[r]: exit status, NoExit while running

vars == << writeFails, pc, tk, iter_pos, count, peeked, cur, yielded,
           attempts, stdout, exit >>

----------------------------------------------------------------------------
(* Formatting: {} of an unsigned integer is its decimal representation.    *)

Digit(d) ==
    CASE d = 0 -> "0" [] d = 1 -> "1" [] d = 2 -> "2" [] d = 3 -> "3"
      [] d = 4 -> "4" [] d = 5 -> "5" [] d = 6 -> "6" [] d = 7 -> "7"
      [] d = 8 -> "8" [] d = 9 -> "9"

\* Decimal with the digits pushed least significant first and not reversed.
RECURSIVE DecimalReversed(_)
DecimalReversed(n) ==
    IF n < 10 THEN Digit(n) ELSE Digit(n % 10) \o DecimalReversed(n \div 10)

RECURSIVE Decimal(_)
Decimal(n) ==
    IF n < 10 THEN Digit(n) ELSE Decimal(n \div 10) \o Digit(n % 10)

\* format!("Token {}: length = {}, data = {}", i, token.length, token.data)
FormatLine(i, token) ==
    "Token " \o Decimal(i) \o ": length = " \o Decimal(token.length)
             \o ", data = " \o Decimal(token.data)

----------------------------------------------------------------------------
(* The iterator chain tk.iter().enumerate().peekable().                    *)

\* slice::Iter::next walking the vector from the back (next_back for next).
SliceIterNextReversed(v, pos) ==
    IF pos = Len(v)
    THEN [item |-> None, pos |-> pos]
    ELSE [item |-> Some(v[Len(v) - pos]), pos |-> pos + 1]

\* slice::Iter::next advancing the cursor by two elements.
SliceIterNextSkip(v, pos) ==
    IF pos >= Len(v)
    THEN [item |-> None, pos |-> pos]
    ELSE [item |-> Some(v[pos + 1]), pos |-> pos + 2]

\* slice::Iter::next over vector v with cursor pos.
SliceIterNext(v, pos) ==
    IF pos = Len(v)
    THEN [item |-> None, pos |-> pos]
    ELSE [item |-> Some(v[pos + 1]), pos |-> pos + 1]

\* Enumerate::next incrementing count before pairing: indices start at 1.
EnumerateNextOneBased(v, pos, cnt) ==
    LET a == SliceIterNext(v, pos) IN
    IF a.item.some
    THEN [item |-> Some(<< cnt + 1, a.item.val >>), pos |-> a.pos,
          count |-> cnt + 1]
    ELSE [item |-> None, pos |-> a.pos, count |-> cnt]

\* Enumerate::next: pairs the inner item with count, then count += 1.
EnumerateNext(v, pos, cnt) ==
    LET a == SliceIterNext(v, pos) IN
    IF a.item.some
    THEN [item |-> Some(<< cnt, a.item.val >>), pos |-> a.pos, count |-> cnt + 1]
    ELSE [item |-> None, pos |-> a.pos, count |-> cnt]

\* Peekable::next: takes the lookahead slot if filled, else asks the inner
\* iterator.
PeekableNext(v, pos, cnt, pk) ==
    IF pk.some
    THEN [item |-> pk.val, pos |-> pos, count |-> cnt, peeked |-> None]
    ELSE LET e == EnumerateNext(v, pos, cnt) IN
         [item |-> e.item, pos |-> e.pos, count |-> e.count, peeked |-> None]

----------------------------------------------------------------------------
Init ==
    /\ writeFails \in SUBSET WriteIndices
    /\ pc = [r \in Runs |-> "start"]
    /\ tk = [r \in Runs |-> << >>]
    /\ iter_pos = [r \in Runs |-> 0]
    /\ count = [r \in Runs |-> 0]
    /\ peeked = [r \in Runs |-> None]
    /\ cur = [r \in Runs |-> None]
    /\ yielded = [r \in Runs |-> << >>]
    /\ attempts = [r \in Runs |-> 0]
    /\ stdout = [r \in Runs |-> << >>]
    /\ exit = [r \in Runs |-> NoExit]

\* let tk = vec![ ... ];
Construct(r) ==
    /\ pc[r] = "start"
    /\ tk' = [tk EXCEPT ![r] = TokenLiteral]
    /\ pc' = [pc EXCEPT ![r] = "iter"]
    /\ UNCHANGED << writeFails, iter_pos, count, peeked, cur, yielded,
                    attempts, stdout, exit >>

\* tk.iter().enumerate().peekable(): cursor at the front, count 0, nothing
\* peeked.
IntoIter(r) ==
    /\ pc[r] = "iter"
    /\ iter_pos' = [iter_pos EXCEPT ![r] = 0]
    /\ count' = [count EXCEPT ![r] = 0]
    /\ peeked' = [peeked EXCEPT ![r] = None]
    /\ pc' = [pc EXCEPT ![r] = "loop"]
    /\ UNCHANGED << writeFails, tk, cur, yielded, attempts, stdout, exit >>

\* The loop over tk.drain(..) taken one element at a time: each step removes
\* the front record from the vector.
ForNextDrain(r) ==
    /\ pc[r] = "loop"
    /\ iter_pos' = [iter_pos EXCEPT ![r] = @ + (IF tk[r] = << >> THEN 0 ELSE 1)]
    /\ count' = [count EXCEPT ![r] = @ + (IF tk[r] = << >> THEN 0 ELSE 1)]
    /\ peeked' = peeked
    /\ IF tk[r] # << >>
       THEN /\ cur' = [cur EXCEPT ![r] = Some(<< count[r], Head(tk[r]) >>)]
            /\ yielded' = [yielded EXCEPT ![r] =
                              Append(@, << count[r], Head(tk[r]) >>)]
            /\ tk' = [tk EXCEPT ![r] = Tail(@)]
            /\ pc' = [pc EXCEPT ![r] = "body"]
       ELSE /\ cur' = [cur EXCEPT ![r] = None]
            /\ yielded' = yielded
            /\ tk' = tk
            /\ pc' = [pc EXCEPT ![r] = "ret"]
    /\ UNCHANGED << writeFails, attempts, stdout, exit >>

\* for (i, token) in ...: one call of next(); Some binds (i, token) and
\* enters the body, None leaves the loop.
ForNext(r) ==
    /\ pc[r] = "loop"
    /\ LET n == PeekableNext(tk[r], iter_pos[r], count[r], peeked[r]) IN
       /\ iter_pos' = [iter_pos EXCEPT ![r] = n.pos]
       /\ count' = [count EXCEPT ![r] = n.count]
       /\ peeked' = [peeked EXCEPT ![r] = n.peeked]
       /\ cur' = [cur EXCEPT ![r] = n.item]
       /\ IF n.item.some
          THEN /\ yielded' = [yielded EXCEPT ![r] = Append(@, n.item.val)]
               /\ pc' = [pc EXCEPT ![r] = "body"]
          ELSE /\ yielded' = yielded
               /\ pc' = [pc EXCEPT ![r] = "ret"]
    /\ UNCHANGED << writeFails, tk, attempts, stdout, exit >>

\* println! with a format string ending in "\n": a blank line follows each
\* report line.
PrintlnBlankLine(r) ==
    /\ pc[r] = "body"
    /\ attempts' = [attempts EXCEPT ![r] = @ + 1]
    /\ IF attempts[r] \in writeFails
       THEN /\ pc' = [pc EXCEPT ![r] = "panicked"]
            /\ exit' = [exit EXCEPT ![r] = ExitPanic]
            /\ stdout' = stdout
       ELSE /\ stdout' = [stdout EXCEPT ![r] =
                            Append(Append(@, FormatLine(cur[r].val[1],
                                                        cur[r].val[2])), "")]
            /\ pc' = [pc EXCEPT ![r] = "loop"]
            /\ exit' = exit
    /\ UNCHANGED << writeFails, tk, iter_pos, count, peeked, cur, yielded >>

\* A write that is retried on failure instead of panicking: the failing
\* write fails again on every retry.
PrintlnRetry(r) ==
    /\ pc[r] = "body"
    /\ IF attempts[r] \in writeFails
       THEN UNCHANGED << attempts, stdout, pc, exit >>
       ELSE /\ attempts' = [attempts EXCEPT ![r] = @ + 1]
            /\ stdout' = [stdout EXCEPT ![r] =
                            Append(@, FormatLine(cur[r].val[1], cur[r].val[2]))]
            /\ pc' = [pc EXCEPT ![r] = "loop"]
            /\ exit' = exit
    /\ UNCHANGED << writeFails, tk, iter_pos, count, peeked, cur, yielded >>

\* let _ = writeln!(stdout, ...): the write error is dropped and the loop
\* goes on.
PrintlnIgnoreError(r) ==
    /\ pc[r] = "body"
    /\ attempts' = [attempts EXCEPT ![r] = @ + 1]
    /\ IF attempts[r] \in writeFails
       THEN stdout' = stdout
       ELSE stdout' = [stdout EXCEPT ![r] =
                         Append(@, FormatLine(cur[r].val[1], cur[r].val[2]))]
    /\ pc' = [pc EXCEPT ![r] = "loop"]
    /\ UNCHANGED << writeFails, tk, iter_pos, count, peeked, cur, yielded,
                    exit >>

\* A line that carries a value read from outside the program (a clock, a
\* random source) in place of the loop index.
PrintlnNondet(r) ==
    /\ pc[r] = "body"
    /\ attempts' = [attempts EXCEPT ![r] = @ + 1]
    /\ IF attempts[r] \in writeFails
       THEN /\ pc' = [pc EXCEPT ![r] = "panicked"]
            /\ exit' = [exit EXCEPT ![r] = ExitPanic]
            /\ stdout' = stdout
       ELSE /\ \E x \in 0..1 :
                 stdout' = [stdout EXCEPT ![r] =
                              Append(@, FormatLine(x, cur[r].val[2]))]
            /\ pc' = [pc EXCEPT ![r] = "loop"]
            /\ exit' = exit
    /\ UNCHANGED << writeFails, tk, iter_pos, count, peeked, cur, yielded >>

\* A failed write whose line reaches the output before the panic.
PrintlnEmitOnFail(r) ==
    /\ pc[r] = "body"
    /\ attempts' = [attempts EXCEPT ![r] = @ + 1]
    /\ stdout' = [stdout EXCEPT ![r] =
                    Append(@, FormatLine(cur[r].val[1], cur[r].val[2]))]
    /\ IF attempts[r] \in writeFails
       THEN /\ pc' = [pc EXCEPT ![r] = "panicked"]
            /\ exit' = [exit EXCEPT ![r] = ExitPanic]
       ELSE /\ pc' = [pc EXCEPT ![r] = "loop"]
            /\ exit' = exit
    /\ UNCHANGED << writeFails, tk, iter_pos, count, peeked, cur, yielded >>

\* println!(...): formats the line and writes it to stdout; a failed write
\* panics, which ends the process with status 101.
Println(r) ==
    /\ pc[r] = "body"
    /\ attempts' = [attempts EXCEPT ![r] = @ + 1]
    /\ IF attempts[r] \in writeFails
       THEN /\ pc' = [pc EXCEPT ![r] = "panicked"]
            /\ exit' = [exit EXCEPT ![r] = ExitPanic]
            /\ stdout' = stdout
       ELSE /\ stdout' = [stdout EXCEPT ![r] =
                            Append(@, FormatLine(cur[r].val[1], cur[r].val[2]))]
            /\ pc' = [pc EXCEPT ![r] = "loop"]
            /\ exit' = exit
    /\ UNCHANGED << writeFails, tk, iter_pos, count, peeked, cur, yielded >>

\* main returns: the process exits with status 0.
MainReturn(r) ==
    /\ pc[r] = "ret"
    /\ pc' = [pc EXCEPT ![r] = "done"]
    /\ exit' = [exit EXCEPT ![r] = ExitSuccess]
    /\ UNCHANGED << writeFails, tk, iter_pos, count, peeked, cur, yielded,
                    attempts, stdout >>

Step(r) ==
    \/ Construct(r)
    \/ IntoIter(r)
    \/ ForNext(r)
    \/ Println(r)
    \/ MainReturn(r)

Next == \E r \in Runs : Step(r)

Spec == Init /\ [][Next]_vars

\* A process that can take a step eventually takes it.
FairSpec == Spec /\ \A r \in Runs : WF_vars(Step(r))

----------------------------------------------------------------------------
Terminal == {"done", "panicked"}

\* The report of section 6.
Expected ==
    << "Token 0: length = 5, data = 10",
       "Token 1: length = 3, data = 20",
       "Token 2: length = 8, data = 30" >>

Prefix(s, n) == SubSeq(s, 1, n)

Range(s) == { s[j] : j \in DOMAIN s }

\* Run r has attempted a write the environment fails.
WriteFailed(r) == \E k \in writeFails : k < attempts[r]

\* Number of writes of run r that succeeded.
SuccessfulPrints(r) ==
    Cardinality({ k \in 0..(attempts[r] - 1) : k \notin writeFails })

----------------------------------------------------------------------------
\* C1: a run that has terminated without a failed write has written exactly
\* the three lines of the report, in order, and exited with status 0.
ExactOutput ==
    \A r \in Runs :
        (pc[r] \in Terminal /\ ~WriteFailed(r)) =>
            /\ stdout[r] = Expected
            /\ exit[r] = 0

ExactOutputWitness ==
    \E r \in Runs : pc[r] = "done" /\ ~WriteFailed(r) /\ attempts[r] = 3

\* C2: the index printed on the i-th line (0-based) is i, and the counter
\* enumerate() pairs with the j-th yielded record is j, starting at 0.
IndexCorrect ==
    \A r \in Runs :
        /\ \A k \in 1..Len(stdout[r]) :
              \E t \in Range(tk[r]) : stdout[r][k] = FormatLine(k - 1, t)
        /\ \A j \in 1..Len(yielded[r]) : yielded[r][j][1] = j - 1

IndexCorrectWitness ==
    \E r \in Runs : Len(stdout[r]) = 3 /\ Len(yielded[r]) = 3

\* C3: the length and data printed on the i-th line are the fields of the
\* i-th record of the literal ((5,10), (3,20), (8,30)) and of no record at
\* another position.
FieldFidelity ==
    \A r \in Runs : \A k \in 1..Len(stdout[r]) :
        /\ \E i \in WriteIndices :
              stdout[r][k] =
                  FormatLine(i, [length |-> << 5, 3, 8 >>[k],
                                 data |-> << 10, 20, 30 >>[k]])
        /\ \A m \in (1..3) \ {k} : \A i \in WriteIndices :
              stdout[r][k] # FormatLine(i, [length |-> << 5, 3, 8 >>[m],
                                            data |-> << 10, 20, 30 >>[m]])

FieldFidelityWitness ==
    \E r \in Runs : pc[r] = "ret" /\ Len(stdout[r]) = 3

\* C4: a run that completes has emitted as many lines as there are records
\* (3); no state has more than 3 lines, and every line emitted is one of
\* the three report lines.
LineCount ==
    \A r \in Runs :
        /\ Len(stdout[r]) <= 3
        /\ pc[r] = "done" => Len(stdout[r]) = Len(tk[r]) /\ Len(tk[r]) = 3
        /\ \A k \in 1..Len(stdout[r]) : stdout[r][k] \in Range(Expected)

LineCountWitness ==
    \E r \in Runs : pc[r] = "done" /\ Len(stdout[r]) = 3 /\ exit[r] = 0

\* C5: every run terminates (completed, or aborted on a failed write), and
\* a run completes only when all 3 lines have been emitted.
Terminates ==
    /\ <>(\A r \in Runs : pc[r] \in Terminal)
    /\ [][\A r \in Runs :
            (pc'[r] = "done" /\ pc[r] # "done") =>
                (Len(stdout[r]) = 3 /\ exit'[r] = 0)]_vars

TerminatesWitness ==
    /\ \A r \in Runs : pc[r] \in Terminal
    /\ \E r \in Runs : exit[r] = 0 /\ Len(stdout[r]) = 3

\* C6: once the k-th write has failed the run has aborted with a non-zero
\* status, the k-th write was its last attempt, its output is the first k
\* lines of the report, and it takes no further step; a non-zero status
\* occurs only after a failed write.
WriteFailureAborts ==
    /\ [](\A r \in Runs :
            /\ WriteFailed(r) =>
                 /\ pc[r] = "panicked"
                 /\ exit[r] \notin {NoExit, 0}
                 /\ (attempts[r] - 1) \in writeFails
                 /\ \A j \in writeFails : j >= attempts[r] - 1
                 /\ stdout[r] = Prefix(Expected, attempts[r] - 1)
            /\ exit[r] \notin {NoExit, 0} => WriteFailed(r))
    /\ [][\A r \in Runs :
            pc[r] = "panicked" =>
                /\ pc'[r] = pc[r]
                /\ attempts'[r] = attempts[r]
                /\ stdout'[r] = stdout[r]
                /\ exit'[r] = exit[r]]_vars

WriteFailureAbortsWitness ==
    \E r \in Runs :
        /\ pc[r] = "panicked"
        /\ attempts[r] = 2
        /\ Len(stdout[r]) = 1
        /\ 2 \notin writeFails

ConsumedOnce ==
    /\ [](\A r \in Runs :
            /\ Len(yielded[r]) <= 3
            /\ \A j \in 1..Len(yielded[r]) :
                  yielded[r][j] = << j - 1, TokenLiteral[j] >>
            /\ iter_pos[r] = Len(yielded[r])
            /\ count[r] = Len(yielded[r])
            /\ pc[r] \in {"ret", "done"} => Len(yielded[r]) = 3
            /\ peeked[r] = None)
    /\ [][\A r \in Runs :
            /\ iter_pos'[r] >= iter_pos[r]
            /\ count'[r] >= count[r]
            /\ iter_pos'[r] <= iter_pos[r] + 1]_vars

ConsumedOnceWitness ==
    \E r \in Runs :
        pc[r] = "ret" /\ Len(yielded[r]) = 3 /\ iter_pos[r] = 3

\* C9: once constructed, the vector keeps its 3 records, their order and
\* their fields through every step, and every field is within [0, 255].
NeverMutated ==
    /\ [](\A r \in Runs :
            pc[r] # "start" =>
                /\ Len(tk[r]) = 3
                /\ \A j \in 1..Len(tk[r]) :
                      tk[r][j].length \in U8 /\ tk[r][j].data \in U8)
    /\ [][\A r \in Runs : pc[r] # "start" => tk'[r] = tk[r]]_vars

NeverMutatedWitness ==
    \E r \in Runs :
        /\ pc[r] = "loop"
        /\ Len(stdout[r]) = 2
        /\ tk[r] = TokenLiteral

\* C10: the lines emitted so far are the first n lines of the report, n
\* being the number of prints that succeeded, and output only grows by the
\* next line of the report.
PrefixInvariant ==
    /\ [](\A r \in Runs :
            /\ Len(stdout[r]) <= Len(Expected)
            /\ stdout[r] = Prefix(Expected, Len(stdout[r]))
            /\ Len(stdout[r]) = SuccessfulPrints(r))
    /\ [][\A r \in Runs :
            stdout'[r] # stdout[r] =>
                /\ Len(stdout[r]) < Len(Expected)
                /\ stdout'[r] =
                       Append(stdout[r], Expected[Len(stdout[r]) + 1])]_vars

PrefixInvariantWitness ==
    \E r \in Runs :
        /\ pc[r] = "panicked"
        /\ Len(stdout[r]) = 2
        /\ SuccessfulPrints(r) = 2

====
